---------------------------- MODULE Spec2Model ----------------------------
(***************************************************************************)
(* State-machine model of src/src/lib.rs (crate github-oidc):              *)
(* GithubJWKS::validate_github_token run by concurrent tasks against an    *)
(* Arc<RwLock<GithubJWKS>> that a refresher replaces.                      *)
(*                                                                         *)
(* The calls into the jsonwebtoken crate (decode_header,                   *)
(* DecodingKey::from_rsa_components / from_secret, Validation::new,        *)
(* set_audience, decode) are modelled by what release 9 of that crate      *)
(* does, the release line whose from_rsa_components returns a Result as    *)
(* line 151-152 requires.  tokio::sync::RwLock is modelled as the fair,    *)
(* FIFO-queued lock its documentation describes.                           *)
(***************************************************************************)
EXTENDS Integers, Sequences, FiniteSets, TLC

\* ------------------------------------------------------------------ bounds
NumKids       == 2      \* key identifiers 1..NumKids; 0 stands for "no kid"
MaxKeys       == 2      \* longest KeySet snapshot
NumValidators == 2      \* concurrent validate calls (concurrent specifications)
Now           == 1000   \* the clock reading used by the temporal checks

\* jsonwebtoken: Validation::new sets leeway to 60 seconds
Leeway == 60

\* ------------------------------------------------------------------ data
Kids == 1..NumKids
NoKid == 0

\* A JWK reduced to what validate reads: kid, and the (n, e) pair.  mat names
\* the RSA key pair the components encode; "bad" is a pair that is not valid
\* base64url, which from_rsa_components rejects.
JWK == [kid : Kids, mat : {"m1", "bad"}]

RECURSIVE SeqsUpTo(_, _)
SeqsUpTo(S, n) ==
    IF n = 0 THEN {<<>>}
    ELSE LET shorter == SeqsUpTo(S, n - 1)
         IN  shorter \cup {Append(s, x) : s \in {t \in shorter : Len(t) = n - 1}, x \in S}

DistinctKids(s) == \A i, j \in 1..Len(s) : i # j => s[i].kid # s[j].kid

\* GithubJWKS.keys: the snapshots a fetch can produce (kid unique per snapshot)
GithubJWKS == {s \in SeqsUpTo(JWK, MaxKeys) : DistinctKids(s)}

\* Option<String> as a set of at most one string
None == {}
Some(x) == {x}

Algs == {"RS256", "HS256"}

\* The decoded header segment.  ok = FALSE: the segment is not base64url JSON
\* with a known "alg" (decode_header fails).
Headers ==
    {[ok |-> FALSE, alg |-> "RS256", kid |-> NoKid]}
    \cup [ok : {TRUE}, alg : Algs, kid : {NoKid} \cup Kids]

ExpValues == {Now - Leeway - 1, Now - 1, Now + Leeway}
Audiences == {None, {"aud1"}, {"aud2"}}
Owners == {"org", "other-org"}
Repos == {"org/repo", "org/other"}

\* The payload segment.  ok = FALSE: it does not deserialize into GitHubClaims
\* (a required field is missing).  hasExp = FALSE: no "exp" claim.
Payloads ==
    [ok : {TRUE}, hasExp : {TRUE}, exp : ExpValues, aud : Audiences,
     repository_owner : Owners, repository : Repos]
    \cup [ok : {TRUE}, hasExp : {FALSE}, exp : {0}, aud : Audiences,
          repository_owner : {"org"}, repository : {"org/repo"}]
    \cup [ok : {FALSE}, hasExp : {TRUE}, exp : {Now - Leeway - 1, Now + Leeway},
          aud : {None}, repository_owner : {"org"}, repository : {"org/repo"}]

\* token: &str.  eyJ: the text starts with "eyJ"; sig: the key pair whose
\* private half signed header.payload ("forged": none of the published ones).
Tokens == [eyJ : BOOLEAN, hdr : Headers, sig : {"m1", "forged"}, payload : Payloads]

ExpectedAudiences == {None, Some("aud1")}
EnvOrgs == {None, Some("org"), Some("Org")}
EnvRepos == {None, Some("org/repo")}

\* GitHubClaims (the fields the authorization checks read)
GitHubClaims(pl) == [repository_owner |-> pl.repository_owner, repository |-> pl.repository]
NoClaims == [repository_owner |-> "", repository |-> ""]

Ok(c) == [err |-> "Ok", claims |-> c]
Err(e) == [err |-> e, claims |-> NoClaims]
Pending == [err |-> "Pending", claims |-> NoClaims]

\* ------------------------------------------------------- pure functions

\* line 126: token.starts_with("eyJ")
\* (variant: no pre-check)
StartsWithAnything(t) == TRUE
StartsWithEyJ(t) == t.eyJ

\* line 134: jsonwebtoken::decode_header
DecodeHeaderOk(t) == t.hdr.ok

\* lines 142-146: jwks.keys.iter().find(|k| k.kid == kid); 0 when None
\* (variant: falls back to the first key when none matches)
FindKeyOrFirst(keys, kid) ==
    IF \E i \in 1..Len(keys) : keys[i].kid = kid
    THEN CHOOSE i \in 1..Len(keys) :
            keys[i].kid = kid /\ \A j \in 1..(i - 1) : keys[j].kid # kid
    ELSE IF Len(keys) > 0 THEN 1 ELSE 0
FindKey(keys, kid) ==
    IF \E i \in 1..Len(keys) : keys[i].kid = kid
    THEN CHOOSE i \in 1..Len(keys) :
            keys[i].kid = kid /\ \A j \in 1..(i - 1) : keys[j].kid # kid
    ELSE 0

\* line 151: DecodingKey::from_rsa_components(modulus, exponent)
FromRsaComponentsOk(k) == k.mat # "bad"
FromRsaComponents(k) == [family |-> "Rsa", mat |-> k.mat, kid |-> k.kid]

\* line 154: DecodingKey::from_secret("your_secret_key")
FromSecret == [family |-> "Hmac", mat |-> "your_secret_key", kid |-> NoKid]
NoKey == [family |-> "None", mat |-> "", kid |-> NoKid]

\* lines 157-160: Validation::new(Algorithm::RS256) and set_audience
\* (variant: the declared algorithm is not restricted)
AnyAlgorithmAllowed(alg) == TRUE
AlgorithmAllowed(alg) == alg = "RS256"

\* decode, signature: the RSA verification of header.payload under the key
SignatureValid(t, dkey) == t.sig = dkey.mat

\* decode, validation of exp: exp < now - leeway
\* (variant: exp is not validated)
NeverExpired(exp) == FALSE
Expired(exp) == exp < Now - Leeway

\* decode, validation of aud (validate_aud defaults to true): a token that
\* carries an audience needs an expected audience containing it; a token
\* that carries none is not checked.
AudienceOk(tokAud, expected) ==
    IF tokAud = None THEN TRUE
    ELSE IF expected = None THEN FALSE
    ELSE tokAud \cap expected # {}

\* line 162: decode::<GitHubClaims>(token, &decoding_key, &validation), in the
\* order of jsonwebtoken's decode: key family, declared algorithm, signature,
\* deserialization into GitHubClaims, then the registered claims.
Decode(t, dkey, expected) ==
    IF dkey.family # "Rsa" THEN Err("AlgorithmMismatch")
    ELSE IF ~AlgorithmAllowed(t.hdr.alg) THEN Err("AlgorithmMismatch")
    ELSE IF ~SignatureValid(t, dkey) THEN Err("InvalidSignature")
    ELSE IF ~t.payload.ok THEN Err("ClaimsDecode")
    ELSE IF ~t.payload.hasExp THEN Err("MissingRequiredClaim")
    ELSE IF Expired(t.payload.exp) THEN Err("ExpiredOrNotYetValid")
    ELSE IF ~AudienceOk(t.payload.aud, expected) THEN Err("AudienceMismatch")
    ELSE Ok(GitHubClaims(t.payload))

\* case folding, as a case-insensitive comparison of the names would apply it
Fold(s) == IF s = "Org" THEN "org" ELSE s

\* line 168: claims.repository_owner != org
\* (variant: case-insensitive comparison)
OrgMatchesIgnoringCase(owner, org) == Fold(owner) = Fold(org)
OrgMatches(owner, org) == owner = org

\* line 182: claims.repository != repo
RepoMatches(repository, repo) == repository = repo

\* ------------------------------------------------------------------ state
Validators == 1..NumValidators
\* the tasks that replace the snapshot: the periodic refresh, and the refresh
\* a caller triggers on a key-not-found error
PeriodicRefresher == NumValidators + 1
RetryRefresher == NumValidators + 2
Writers == {PeriodicRefresher, RetryRefresher}

VARIABLES
    store,      \* the GithubJWKS behind the Arc<RwLock<..>>: its keys
    committed,  \* the last snapshot a replace wrote completely
    envOrg,     \* std::env::var("GITHUB_ORG")
    envRepo,    \* std::env::var("GITHUB_REPO")
    readers,    \* tasks holding a read guard
    writers,    \* tasks holding the write guard
    queue,      \* tasks waiting for the lock, first come first
    pc,         \* each validate call's position
    tok,        \* its token argument
    aud,        \* its expected_audience argument
    locked,     \* whether the call has acquired the read lock
    seen,       \* the keys the call's lookup iterated over
    dkey,       \* its decoding_key
    claims,     \* token_data.claims
    result,     \* what the call returns
    wpc,        \* each refresher's position
    wnew,       \* the snapshot it is installing
    widx        \* how many keys of it are written

lockVars == <<readers, writers, queue>>
callVars == <<pc, tok, aud, locked, seen, dkey, claims, result>>
storeVars == <<store, committed>>
envVars == <<envOrg, envRepo>>
writerVars == <<wpc, wnew, widx>>
vars == <<store, committed, envOrg, envRepo, readers, writers, queue,
          pc, tok, aud, locked, seen, dkey, claims, result, wpc, wnew, widx>>

\* a token whose every check passes under kid k, for the concurrent runs
GoodToken(k) ==
    [eyJ |-> TRUE, hdr |-> [ok |-> TRUE, alg |-> "RS256", kid |-> k], sig |-> "m1",
     payload |-> [ok |-> TRUE, hasExp |-> TRUE, exp |-> Now + Leeway, aud |-> None,
                  repository_owner |-> "org", repository |-> "org/repo"]]

InitCalls ==
    /\ readers = {} /\ writers = {} /\ queue = <<>>
    /\ pc = [p \in Validators |-> "idle"]
    /\ tok = [p \in Validators |-> GoodToken(NoKid)]
    /\ aud = [p \in Validators |-> None]
    /\ locked = [p \in Validators |-> FALSE]
    /\ seen = [p \in Validators |-> <<>>]
    /\ dkey = [p \in Validators |-> NoKey]
    /\ claims = [p \in Validators |-> NoClaims]
    /\ result = [p \in Validators |-> Pending]
    /\ wpc = [w \in Writers |-> "idle"]
    /\ wnew = [w \in Writers |-> <<>>]
    /\ widx = [w \in Writers |-> 0]

\* ---------------------------------------------------------- tokio RwLock

\* RwLock::read: granted to the task at the head of the queue while no
\* writer holds the lock
AtHead(p) == queue # <<>> /\ Head(queue) = p
\* (variant: readers do not wait for the writer)
CanGrantReadDespiteWriter(p) == AtHead(p)
CanGrantRead(p) == AtHead(p) /\ writers = {}

\* the read guard is dropped when validate returns
\* (variant: the guard outlives the call)
ReleaseReadLeaks(p) == readers
ReleaseRead(p) == readers \ {p}

\* ------------------------------------------------------------- validate

\* lines 120-124: a caller invokes validate_github_token(token, jwks, aud)
Start(p, T, A) ==
    /\ pc[p] = "idle"
    /\ \E t \in T, a \in A :
        /\ tok' = [tok EXCEPT ![p] = t]
        /\ aud' = [aud EXCEPT ![p] = a]
    /\ pc' = [pc EXCEPT ![p] = "precheck"]
    /\ UNCHANGED <<locked, seen, dkey, claims, result>>
    /\ UNCHANGED <<lockVars, storeVars, envVars, writerVars>>

\* lines 126-131: the format pre-check, then jwks.read() is awaited
PreCheck(p) ==
    /\ pc[p] = "precheck"
    /\ IF ~StartsWithEyJ(tok[p])
       THEN /\ result' = [result EXCEPT ![p] = Err("MalformedToken")]
            /\ pc' = [pc EXCEPT ![p] = "done"]
            /\ UNCHANGED queue
       ELSE /\ queue' = Append(queue, p)
            /\ pc' = [pc EXCEPT ![p] = "read"]
            /\ UNCHANGED result
    /\ UNCHANGED <<tok, aud, locked, seen, dkey, claims, readers, writers>>
    /\ UNCHANGED <<storeVars, envVars, writerVars>>

\* line 131: the read guard is granted
ReadGrant(p) ==
    /\ pc[p] = "read"
    /\ CanGrantRead(p)
    /\ queue' = Tail(queue)
    /\ readers' = readers \cup {p}
    /\ locked' = [locked EXCEPT ![p] = TRUE]
    /\ pc' = [pc EXCEPT ![p] = "header"]
    /\ UNCHANGED <<tok, aud, seen, dkey, claims, result, writers>>
    /\ UNCHANGED <<storeVars, envVars, writerVars>>

\* lines 134-139: decode_header
DecodeHeader(p) ==
    /\ pc[p] = "header"
    /\ IF ~DecodeHeaderOk(tok[p])
       THEN /\ result' = [result EXCEPT ![p] = Err("HeaderDecode")]
            /\ pc' = [pc EXCEPT ![p] = "done"]
            /\ readers' = ReleaseRead(p)
       ELSE /\ pc' = [pc EXCEPT ![p] = "resolve"]
            /\ UNCHANGED <<result, readers>>
    /\ UNCHANGED <<tok, aud, locked, seen, dkey, claims, writers, queue>>
    /\ UNCHANGED <<storeVars, envVars, writerVars>>

\* lines 141-155: the decoding key, from the JWKS or from the fixed secret
ResolveKey(p) ==
    /\ pc[p] = "resolve"
    /\ LET kid == tok[p].hdr.kid
           i == FindKey(store, kid)
       IN  IF kid # NoKid
           THEN /\ seen' = [seen EXCEPT ![p] = store]
                /\ IF i = 0
                   THEN /\ result' = [result EXCEPT ![p] = Err("KeyNotFound")]
                        /\ pc' = [pc EXCEPT ![p] = "done"]
                        /\ readers' = ReleaseRead(p)
                        /\ UNCHANGED dkey
                   ELSE IF ~FromRsaComponentsOk(store[i])
                   THEN /\ result' = [result EXCEPT ![p] = Err("KeyConstruction")]
                        /\ pc' = [pc EXCEPT ![p] = "done"]
                        /\ readers' = ReleaseRead(p)
                        /\ UNCHANGED dkey
                   ELSE /\ dkey' = [dkey EXCEPT ![p] = FromRsaComponents(store[i])]
                        /\ pc' = [pc EXCEPT ![p] = "decode"]
                        /\ UNCHANGED <<result, readers>>
           ELSE /\ dkey' = [dkey EXCEPT ![p] = FromSecret]
                /\ pc' = [pc EXCEPT ![p] = "decode"]
                /\ UNCHANGED <<seen, result, readers>>
    /\ UNCHANGED <<tok, aud, locked, claims, writers, queue>>
    /\ UNCHANGED <<storeVars, envVars, writerVars>>

\* lines 157-165: Validation, decode, token_data.claims
DecodeToken(p) ==
    /\ pc[p] = "decode"
    /\ LET r == Decode(tok[p], dkey[p], aud[p])
       IN  IF r.err # "Ok"
           THEN /\ result' = [result EXCEPT ![p] = r]
                /\ pc' = [pc EXCEPT ![p] = "done"]
                /\ readers' = ReleaseRead(p)
                /\ UNCHANGED claims
           ELSE /\ claims' = [claims EXCEPT ![p] = r.claims]
                /\ pc' = [pc EXCEPT ![p] = "org"]
                /\ UNCHANGED <<result, readers>>
    /\ UNCHANGED <<tok, aud, locked, seen, dkey, writers, queue>>
    /\ UNCHANGED <<storeVars, envVars, writerVars>>

\* lines 167-175: the GITHUB_ORG check
CheckOrg(p) ==
    /\ pc[p] = "org"
    /\ IF \E org \in envOrg : ~OrgMatches(claims[p].repository_owner, org)
       THEN /\ result' = [result EXCEPT ![p] = Err("OrganizationMismatch")]
            /\ pc' = [pc EXCEPT ![p] = "done"]
            /\ readers' = ReleaseRead(p)
       ELSE /\ pc' = [pc EXCEPT ![p] = "repo"]
            /\ UNCHANGED <<result, readers>>
    /\ UNCHANGED <<tok, aud, locked, seen, dkey, claims, writers, queue>>
    /\ UNCHANGED <<storeVars, envVars, writerVars>>

\* lines 177-193: the GITHUB_REPO check, then Ok(claims)
CheckRepo(p) ==
    /\ pc[p] = "repo"
    /\ IF \E repo \in envRepo : ~RepoMatches(claims[p].repository, repo)
       THEN result' = [result EXCEPT ![p] = Err("RepositoryMismatch")]
       ELSE result' = [result EXCEPT ![p] = Ok(claims[p])]
    /\ pc' = [pc EXCEPT ![p] = "done"]
    /\ readers' = ReleaseRead(p)
    /\ UNCHANGED <<tok, aud, locked, seen, dkey, claims, writers, queue>>
    /\ UNCHANGED <<storeVars, envVars, writerVars>>

\* the caller takes the Result; the call's locals are gone
Return(p) ==
    /\ pc[p] = "done"
    /\ pc' = [pc EXCEPT ![p] = "idle"]
    /\ tok' = [tok EXCEPT ![p] = GoodToken(NoKid)]
    /\ aud' = [aud EXCEPT ![p] = None]
    /\ locked' = [locked EXCEPT ![p] = FALSE]
    /\ seen' = [seen EXCEPT ![p] = <<>>]
    /\ dkey' = [dkey EXCEPT ![p] = NoKey]
    /\ claims' = [claims EXCEPT ![p] = NoClaims]
    /\ result' = [result EXCEPT ![p] = Pending]
    /\ UNCHANGED <<lockVars, storeVars, envVars, writerVars>>

\* the steps of a call once it is started
Step(p) ==
    \/ PreCheck(p)
    \/ ReadGrant(p)
    \/ DecodeHeader(p)
    \/ ResolveKey(p)
    \/ DecodeToken(p)
    \/ CheckOrg(p)
    \/ CheckRepo(p)
    \/ Return(p)

\* ------------------------------------------------- sequential validation
Init ==
    /\ InitCalls
    /\ store \in GithubJWKS
    /\ committed = store
    /\ envOrg \in EnvOrgs
    /\ envRepo \in EnvRepos

Next == Start(1, Tokens, ExpectedAudiences) \/ Step(1)

Spec == Init /\ [][Next]_vars

\* ------------------------------------------------------------- refresher
\* The refresher is the caller's: it takes jwks.write() and installs a newly
\* fetched GithubJWKS.  Under the write guard the keys are overwritten in
\* place, one element at a time.

\* replace(newSnapshot) is called: jwks.write() is awaited
WriteRequest(w, S) ==
    /\ wpc[w] = "idle"
    /\ \E s \in S : wnew' = [wnew EXCEPT ![w] = s]
    /\ wpc' = [wpc EXCEPT ![w] = "waiting"]
    /\ queue' = Append(queue, w)
    /\ UNCHANGED <<widx, readers, writers>>
    /\ UNCHANGED <<callVars, storeVars, envVars>>

\* the write guard is granted: no reader and no writer holds the lock
WriteGrant(w) ==
    /\ wpc[w] = "waiting"
    /\ AtHead(w)
    /\ readers = {} /\ writers = {}
    /\ queue' = Tail(queue)
    /\ writers' = writers \cup {w}
    /\ wpc' = [wpc EXCEPT ![w] = "writing"]
    /\ UNCHANGED <<wnew, widx, readers>>
    /\ UNCHANGED <<callVars, storeVars, envVars>>

\* one key of the new snapshot is written over the held one
WriteKey(w) ==
    /\ wpc[w] = "writing"
    /\ widx[w] < Len(wnew[w])
    /\ LET i == widx[w] + 1
       IN  store' = IF i <= Len(store) THEN [store EXCEPT ![i] = wnew[w][i]]
                    ELSE Append(store, wnew[w][i])
    /\ widx' = [widx EXCEPT ![w] = widx[w] + 1]
    /\ UNCHANGED <<committed, wpc, wnew, lockVars>>
    /\ UNCHANGED <<callVars, envVars>>

\* the held snapshot is the new one; the write guard is dropped
WriteFinish(w) ==
    /\ wpc[w] = "writing"
    /\ widx[w] = Len(wnew[w])
    /\ store' = wnew[w]
    /\ committed' = wnew[w]
    /\ writers' = writers \ {w}
    /\ wpc' = [wpc EXCEPT ![w] = "idle"]
    /\ wnew' = [wnew EXCEPT ![w] = <<>>]
    /\ widx' = [widx EXCEPT ![w] = 0]
    /\ UNCHANGED <<readers, queue>>
    /\ UNCHANGED <<callVars, envVars>>

WriterStep(w) == WriteGrant(w) \/ WriteKey(w) \/ WriteFinish(w)

\* -------------------------------------------------- concurrent validation
SnapshotA == <<[kid |-> 1, mat |-> "m1"], [kid |-> 2, mat |-> "bad"]>>
SnapshotB == <<[kid |-> 2, mat |-> "m1"]>>
ConcSnapshots == {SnapshotA, SnapshotB}

\* tokens and environments that between them take every way out of validate
ConcTokens ==
    {GoodToken(NoKid), GoodToken(1),
     [GoodToken(2) EXCEPT !.payload.repository_owner = "other-org"],
     [GoodToken(1) EXCEPT !.eyJ = FALSE],
     [GoodToken(1) EXCEPT !.hdr = [ok |-> FALSE, alg |-> "RS256", kid |-> NoKid]]}

ConcEnvs == {<<Some("org"), Some("org/repo")>>, <<None, Some("org/other")>>}

ConcInit ==
    /\ InitCalls
    /\ store = SnapshotA
    /\ committed = SnapshotA
    /\ \E e \in ConcEnvs : envOrg = e[1] /\ envRepo = e[2]

ConcNext ==
    \/ \E p \in Validators : Start(p, ConcTokens, {None}) \/ Step(p)
    \/ \E w \in Writers : WriteRequest(w, ConcSnapshots) \/ WriterStep(w)

ConcSpec == ConcInit /\ [][ConcNext]_vars

FairNext ==
    \/ \E p \in Validators : Start(p, ConcTokens, {None}) \/ Step(p)
    \/ WriteRequest(PeriodicRefresher, ConcSnapshots) \/ WriterStep(PeriodicRefresher)

\* Scheduling: the runtime keeps polling every task that can run, so a call
\* that can take a step and a refresher that can take one eventually do.
\* New calls and new refreshes may or may not arrive.
FairSpec ==
    /\ ConcInit /\ [][FairNext]_vars
    /\ \A p \in Validators : WF_vars(Step(p))
    /\ WF_vars(WriterStep(PeriodicRefresher))

\* ------------------------------------------------------------ the claims

Done(p) == pc[p] = "done"
HasKid(t) == t.hdr.kid # NoKid
\* the token's header names a key of the store whose components are usable
KeyResolves(t) ==
    /\ HasKid(t)
    /\ FindKey(store, t.hdr.kid) # 0
    /\ store[FindKey(store, t.hdr.kid)].mat # "bad"
\* the key the token's header names signed the token
SignedByNamedKey(t) == KeyResolves(t) /\ t.sig = store[FindKey(store, t.hdr.kid)].mat
\* the decoding key was built from the components of a key of the snapshot read
KeyFromSnapshot(p) ==
    /\ dkey[p].family = "Rsa"
    /\ \E i \in 1..Len(seen[p]) :
          seen[p][i].kid = dkey[p].kid /\ seen[p][i].mat = dkey[p].mat
OrgPasses(t) == \A org \in envOrg : t.payload.repository_owner = org
RepoPasses(t) == \A repo \in envRepo : t.payload.repository = repo
\* the token passes every step up to and including the signature check
Verified(t) ==
    /\ t.eyJ /\ t.hdr.ok /\ t.hdr.alg = "RS256" /\ SignedByNamedKey(t)
\* valid in everything but, possibly, its audience
ValidButAudience(t) ==
    /\ Verified(t) /\ t.payload.ok /\ t.payload.hasExp
    /\ t.payload.exp >= Now
    /\ OrgPasses(t) /\ RepoPasses(t)

\* C1 (as claimed): a token whose header carries no kid fails as a header
\* decode failure, is never verified against the fixed secret, and whenever
\* validate returns Ok the key came from a SigningKey of the snapshot read.
C1_NoKidIsHeaderDecodeFailure ==
    \A p \in Validators :
        /\ (Done(p) /\ tok[p].eyJ /\ tok[p].hdr.ok /\ ~HasKid(tok[p]))
              => result[p] = Err("HeaderDecode")
        /\ dkey[p] # FromSecret
        /\ (Done(p) /\ result[p].err = "Ok") => KeyFromSnapshot(p)

\* C2: a token that passes the pre-check and header decode and whose kid is
\* the kid of no key of the KeySet (an empty one included) fails with
\* KeyNotFound, whatever the rest of the token is.
C2_UnknownKidIsKeyNotFound ==
    \A p \in Validators :
        (Done(p) /\ tok[p].eyJ /\ tok[p].hdr.ok /\ HasKid(tok[p])
            /\ \A i \in 1..Len(store) : store[i].kid # tok[p].hdr.kid)
        => result[p] = Err("KeyNotFound")

C2_Witness ==
    \E p \in Validators :
        /\ Done(p) /\ result[p] = Err("KeyNotFound")
        /\ Len(store) > 0 /\ store[1].mat = "m1" /\ tok[p].sig = "m1"
        /\ tok[p].hdr.alg = "RS256"
        /\ tok[p].payload.ok /\ tok[p].payload.hasExp /\ tok[p].payload.exp >= Now
        /\ tok[p].payload.aud = None /\ OrgPasses(tok[p]) /\ RepoPasses(tok[p])

\* C3 (as claimed): every token whose declared algorithm is not RS256 fails
\* with the algorithm-mismatch error.
C3_NonRS256IsAlgorithmMismatch ==
    \A p \in Validators :
        (Done(p) /\ tok[p].eyJ /\ tok[p].hdr.ok /\ tok[p].hdr.alg # "RS256")
        => result[p] = Err("AlgorithmMismatch")

\* C3 (amended): no token whose declared algorithm is not RS256 is accepted,
\* and one whose key resolution succeeds (its kid names a usable key, or it
\* has no kid) fails with the algorithm-mismatch error.
C3_NonRS256Rejected ==
    \A p \in Validators :
        (Done(p) /\ tok[p].hdr.alg # "RS256") =>
            /\ result[p].err # "Ok"
            /\ (tok[p].eyJ /\ tok[p].hdr.ok /\ (KeyResolves(tok[p]) \/ ~HasKid(tok[p])))
                  => result[p] = Err("AlgorithmMismatch")

C3_Witness ==
    \E p \in Validators :
        /\ Done(p) /\ tok[p].hdr.alg = "HS256" /\ SignedByNamedKey(tok[p])
        /\ result[p] = Err("AlgorithmMismatch")

\* C4 (as claimed): with an expected audience, an otherwise valid token is
\* accepted if its audience claim contains it and rejected with the
\* audience-mismatch error if not; with none, the audience check rejects
\* nothing.
C4_AudienceCheckedOnlyWhenExpected ==
    \A p \in Validators :
        (Done(p) /\ ValidButAudience(tok[p])) =>
            /\ \A a \in aud[p] :
                  /\ a \in tok[p].payload.aud => result[p].err = "Ok"
                  /\ a \notin tok[p].payload.aud => result[p] = Err("AudienceMismatch")
            /\ aud[p] = None => result[p] # Err("AudienceMismatch")

\* C5 (as claimed): a token whose expiry is in the past fails with the
\* expired error, whether its signature is valid or not.
C5_ExpiredIsExpiredError ==
    \A p \in Validators :
        (Done(p) /\ tok[p].eyJ /\ tok[p].hdr.ok /\ tok[p].hdr.alg = "RS256"
            /\ KeyResolves(tok[p]) /\ tok[p].payload.ok /\ tok[p].payload.aud = None
            /\ tok[p].payload.hasExp /\ tok[p].payload.exp < Now)
        => result[p] = Err("ExpiredOrNotYetValid")

\* C5 (amended): a token whose expiry lies more than the 60 s leeway in the
\* past is never accepted; it fails with the expired error when it passes
\* every earlier step (signature verification and deserialization included),
\* and with the signature error when its signature is invalid.
C5_ExpiredBeyondLeewayRejected ==
    \A p \in Validators :
        (Done(p) /\ tok[p].payload.hasExp /\ tok[p].payload.exp < Now - Leeway) =>
            /\ result[p].err # "Ok"
            /\ (Verified(tok[p]) /\ tok[p].payload.ok)
                  => result[p] = Err("ExpiredOrNotYetValid")
            /\ (tok[p].eyJ /\ tok[p].hdr.ok /\ tok[p].hdr.alg = "RS256"
                  /\ KeyResolves(tok[p]) /\ ~SignedByNamedKey(tok[p]))
                  => result[p] = Err("InvalidSignature")

C5_Witness ==
    \E p \in Validators :
        /\ Done(p) /\ Verified(tok[p]) /\ tok[p].payload.ok
        /\ tok[p].payload.exp < Now - Leeway
        /\ result[p] = Err("ExpiredOrNotYetValid")

\* C6: for a token that passed signature and claim verification, the
\* organization check applies exactly when GITHUB_ORG is set and compares
\* repository_owner exactly; the repository check applies exactly when
\* GITHUB_REPO is set; with both passing (or unset) the verified claims are
\* returned unchanged.
C6_AuthorizationBinding ==
    \A p \in Validators :
        (Done(p) /\ dkey[p] # NoKey /\ Decode(tok[p], dkey[p], aud[p]).err = "Ok") =>
            /\ ~OrgPasses(tok[p]) => result[p] = Err("OrganizationMismatch")
            /\ (OrgPasses(tok[p]) /\ ~RepoPasses(tok[p]))
                  => result[p] = Err("RepositoryMismatch")
            /\ (OrgPasses(tok[p]) /\ RepoPasses(tok[p]))
                  => result[p] = Ok(GitHubClaims(tok[p].payload))

C6_Witness ==
    \E p \in Validators :
        /\ Done(p) /\ envOrg = Some("Org") /\ tok[p].payload.repository_owner = "org"
        /\ result[p] = Err("OrganizationMismatch")

\* C7 (as claimed): a token that does not start with a valid JWT header fails
\* with the malformed-token error and the store is never read-locked.
C7_BadHeaderIsMalformedUnlocked ==
    \A p \in Validators :
        (Done(p) /\ ~tok[p].hdr.ok) => (result[p] = Err("MalformedToken") /\ ~locked[p])

\* C7 (amended): a token that does not start with the text "eyJ" fails with
\* the malformed-token error, and its call never requests or holds the read
\* lock and never reads the keys.
C7_NoPrefixIsMalformedUnlocked ==
    \A p \in Validators :
        (pc[p] # "idle" /\ ~tok[p].eyJ) =>
            /\ pc[p] \in {"precheck", "done"}
            /\ Done(p) => result[p] = Err("MalformedToken")
            /\ ~locked[p] /\ p \notin readers /\ seen[p] = <<>>
            /\ \A i \in 1..Len(queue) : queue[i] # p

C7_Witness ==
    \E p \in Validators :
        /\ Done(p) /\ ~tok[p].eyJ /\ tok[p].hdr.ok /\ HasKid(tok[p])
        /\ result[p] = Err("MalformedToken")

\* the error of the first failing step, the steps taken in the documented order
FirstFailure(t, expected) ==
    IF ~t.eyJ THEN Err("MalformedToken")
    ELSE IF ~t.hdr.ok THEN Err("HeaderDecode")
    ELSE IF ~HasKid(t) THEN Err("HeaderDecode")
    ELSE IF FindKey(store, t.hdr.kid) = 0 THEN Err("KeyNotFound")
    ELSE IF ~KeyResolves(t) THEN Err("KeyConstruction")
    ELSE IF t.hdr.alg # "RS256" THEN Err("AlgorithmMismatch")
    ELSE IF ~SignedByNamedKey(t) THEN Err("InvalidSignature")
    ELSE IF ~t.payload.hasExp THEN Err("MissingRequiredClaim")
    ELSE IF Expired(t.payload.exp) THEN Err("ExpiredOrNotYetValid")
    ELSE IF ~AudienceOk(t.payload.aud, expected) THEN Err("AudienceMismatch")
    ELSE IF ~t.payload.ok THEN Err("ClaimsDecode")
    ELSE IF ~OrgPasses(t) THEN Err("OrganizationMismatch")
    ELSE IF ~RepoPasses(t) THEN Err("RepositoryMismatch")
    ELSE Ok(GitHubClaims(t.payload))

\* C10 (as claimed): validate returns the error of the earliest failing step
\* of pre-check, header decode, key resolution, signature and structural
\* claim verification, claim deserialization, organization, repository; and
\* Ok only if every step passed.
C10_ErrorOfEarliestFailingStep ==
    \A p \in Validators : Done(p) => result[p] = FirstFailure(tok[p], aud[p])

\* the call has looked its kid up in the keys
LookedUp(p) == pc[p] \in {"decode", "org", "repo", "done"} /\ locked[p] /\ HasKid(tok[p])

\* C8: whatever the interleaving of validate calls and replaces, the keys a
\* call looks its kid up in are one whole snapshot, never a mix of two; the
\* store is whole while any reader holds it; at most one writer holds the
\* store, and no reader does while one holds it.
C8_SnapshotNeverTorn ==
    /\ \A p \in Validators : LookedUp(p) => seen[p] \in ConcSnapshots
    /\ \A p \in Validators : (LookedUp(p) /\ p \in readers) => seen[p] = committed
    /\ readers # {} => store = committed
    /\ Cardinality(writers) <= 1
    /\ writers # {} => readers = {}

C8_Witness ==
    \E p, q \in Validators :
        /\ LookedUp(p) /\ seen[p] = SnapshotA /\ Done(p)
        /\ LookedUp(q) /\ seen[q] = SnapshotB /\ q \in readers
        /\ \E w \in Writers : wpc[w] = "waiting"

\* C9: a call holds the read lock only between acquiring it and returning,
\* on every way out, and a refresher waiting for the write lock is
\* eventually granted it, also while new calls keep arriving.
C9_WriterEventuallyGranted ==
    /\ [](\A p \in Validators : pc[p] \in {"idle", "precheck", "read", "done"} => p \notin readers)
    /\ \A w \in Writers : (wpc[w] = "waiting") ~> (w \in writers)

C9_Witness ==
    \E w \in Writers, p, q \in Validators :
        /\ w \in writers
        /\ p # q /\ pc[p] = "read" /\ pc[q] = "done" /\ locked[q]
        /\ result[q].err = "Ok"

=============================================================================
